---- MODULE Spec2Model ----
(***************************************************************************)
(* The client feed controllers of latent-self: the polling, merge and      *)
(* pagination state of the feed pages                                      *)
(*   "random" : src/nextjs/app/random/page.tsx  (shuffle, prepend merge)   *)
(*   "feed"   : src/unnamed/part_005            (replace, known-id set)    *)
(*   "home"   : src/nextjs/app/page.tsx         (replace, reset on load)   *)
(* over the flat-file post store the listing service enumerates.           *)
(*                                                                         *)
(* A post is its id, a number in 1..NumIds; the number also stands for its *)
(* timestamp string, so the listing (sorted by timestamp, descending) of a *)
(* store is its ids from the largest to the smallest.                      *)
(***************************************************************************)
EXTENDS Integers, Sequences, FiniteSets, Bags, TLC

\* ---- bounds of the model
NumIds == 3          \* posts that can ever be in the store
MaxUploads == 2       \* upload requests in one run
MaxStemTokens == 7    \* pieces a file name in the store is put together from
MaxDemoPosts == 5     \* posts the demo page can be given
MaxHeight == 4        \* height of the strip container, in pixels
MaxScroll == 12       \* scrollable range of the drawer, in pixels
MaxViewport == 2      \* height of the window, in pixels
MaxSegments == 2      \* path segments of a requested image name
RandomBits == 6       \* bits of the mantissa of a random number
MaxPending == 2      \* callbacks pending at one time: fetches awaited and
                     \* load-more timeouts

\* ---- program constants
POSTS_PER_LOAD == 5
EDGE == 5             \* drawer: how near an end of the scroll range counts as the end

Ids == 1..NumIds
Views == {"random", "feed", "home"}

VARIABLES
  view,               \* which page is open
  store,              \* ids of the image files in the store directory
  allPosts,           \* useState: the known posts, in display order
  displayedCount,     \* useState: how many of allPosts are rendered
  isLoading,          \* useState
  isLoadingMore,      \* useState
  newPostsCount,      \* useState (random, feed)
  showNewPostsBubble, \* useState (random, feed)
  hasLoadedOnce,      \* hasLoadedOnceRef.current
  previousPostIds,    \* previousPostIdsRef.current (feed; random only writes it, left out there)
  mounted,            \* the mount effect has run
  inflight,           \* bag of loadPosts calls suspended at their fetch
  timers,             \* bag of pending load-more timeouts: the captured allPosts.length
  listenerSees,       \* isLoadingMore as the registered scroll listener closed over it
  latest,             \* history: the list fetched by the last started loadPosts
  last,               \* history: the last completed loadPosts and what it met
  crashed,            \* a render of the page threw: the component tree is gone
  api,                \* which upload route serves: "pages" (part_000) or "app" (part_002)
  files,              \* the store directory: file name |-> content
  uploads,            \* the upload requests so far, each with its position
  listing,            \* the last answer of the posts listing
  snapshot,           \* posts.json as the snapshot generator last wrote it
  disk,               \* the files under the working directory, as the image endpoint sees them
  served,             \* the last answer of the image endpoint, with its request
  displayedPosts,     \* useState (demo): the posts revealed so far, newest reveal first
  currentIndex,       \* useState (demo): index into the reversed list of the last reveal
  hoveredPost,        \* useState (strip): the post under the pointer, 0 for null
  displayedPost,      \* useState (strip): the post shown, 0 for null
  isDragging,         \* useState (strip)
  isTouching,         \* useState (strip)
  lastHoveredPost,    \* lastHoveredPostRef.current (strip), 0 for null
  activePost,         \* useState (drawer), 0 for null
  event               \* history: the last input event of a strip or drawer page

vars == <<view, store, allPosts, displayedCount, isLoading, isLoadingMore,
          newPostsCount, showNewPostsBubble, hasLoadedOnce, previousPostIds,
          mounted, inflight, timers, listenerSees, latest, last,
          crashed, api, files, uploads, listing, snapshot, disk, served,
          displayedPosts, currentIndex, hoveredPost, displayedPost, isDragging,
          isTouching, lastHoveredPost, activePost, event>>

\* What no action of a page touches, and what no request to the server touches.
server == <<api, files, uploads, listing, snapshot, disk, served>>

images == <<disk, served>>

\* The state of the demo, strip and drawer pages.
pages == <<displayedPosts, currentIndex, hoveredPost, displayedPost, isDragging,
           isTouching, lastHoveredPost, activePost, event>>

client == <<view, store, allPosts, displayedCount, isLoading, isLoadingMore,
            newPostsCount, showNewPostsBubble, hasLoadedOnce, previousPostIds,
            mounted, inflight, timers, listenerSees, latest, last, crashed>>

\* ---- helpers
Min(a, b) == IF a <= b THEN a ELSE b

Range(s) == {s[i] : i \in 1..Len(s)}

SetMax(S) == CHOOSE m \in S : \A x \in S : x <= m

\* GET /api/posts (and posts.json): every image of the store, newest first.
RECURSIVE Listing(_)
Listing(S) == IF S = {} THEN <<>>
              ELSE <<SetMax(S)>> \o Listing(S \ {SetMax(S)})

\* shuffleArray: Fisher-Yates with Math.random can return any permutation.
shuffleArray(s) ==
  {[i \in 1..Len(s) |-> s[p[i]]] : p \in Permutations(1..Len(s))}

\* Array.prototype.filter(post => !existingPostIds.has(post.id))
RECURSIVE FilterNew(_, _)
FilterNew(s, known) ==
  IF s = <<>> THEN <<>>
  ELSE (IF Head(s) \in known THEN <<>> ELSE <<Head(s)>>) \o FilterNew(Tail(s), known)

Pending == BagCardinality(inflight) + BagCardinality(timers)

\* History record of the last completed loadPosts: which load it was, whether
\* allPosts held posts before it (known), whether it fetched ids that were not
\* in allPosts (fresh: "none", "newer" when each of them is newer than every
\* post of allPosts, "older" otherwise) and whether an id of allPosts was not
\* in what it fetched (missing).
NoOp == [op |-> "none", initial |-> FALSE, manual |-> FALSE, quiet |-> FALSE,
         known |-> FALSE, fresh |-> "none", missing |-> FALSE]

Freshness(data, posts) ==
  IF Range(data) \ Range(posts) = {} THEN "none"
  ELSE IF \A n \in Range(data) \ Range(posts) : \A o \in Range(posts) : n > o
       THEN "newer"
       ELSE "older"

Did(l) ==
  [op |-> "load", initial |-> l.initial, manual |-> l.manual, quiet |-> l.quiet,
   known |-> allPosts # <<>>,
   fresh |-> Freshness(l.data, allPosts),
   missing |-> Range(allPosts) \ Range(l.data) # {}]

\* ---- strings of the server, written as tuples of characters
PNG == <<".", "p", "n", "g">>
JPG == <<".", "j", "p", "g">>
TXT == <<".", "t", "x", "t">>
STORY_TXT == <<"_", "s", "t", "o", "r", "y">> \o TXT
IMAGE_PNG == <<"i", "m", "a", "g", "e">> \o PNG

\* String.prototype.startsWith / endsWith
StartsWith(s, pat) == Len(s) >= Len(pat) /\ SubSeq(s, 1, Len(pat)) = pat

EndsWith(s, pat) ==
  Len(s) >= Len(pat) /\ SubSeq(s, Len(s) - Len(pat) + 1, Len(s)) = pat

\* The places of s at which pat starts.
Occurrences(s, pat) ==
  {i \in 1..(Len(s) - Len(pat) + 1) : SubSeq(s, i, i + Len(pat) - 1) = pat}

SetMin(S) == CHOOSE m \in S : \A x \in S : m <= x

\* s.replace(pat, to) with a string pattern: the first occurrence only.
ReplaceFirst(s, pat, to) ==
  IF Occurrences(s, pat) = {} THEN s
  ELSE LET i == SetMin(Occurrences(s, pat)) IN
       SubSeq(s, 1, i - 1) \o to \o SubSeq(s, i + Len(pat), Len(s))

\* s.replace(/pat$/, to): the occurrence that ends the string.
ReplaceAtEnd(s, pat, to) ==
  IF EndsWith(s, pat) THEN SubSeq(s, 1, Len(s) - Len(pat)) \o to ELSE s

\* A variant that replaces the first match only, as a pattern without the g
\* flag would.
SanitizeFirst(timestamp) ==
  [i \in 1..Len(timestamp) |->
     IF timestamp[i] \in {":", "."}
        /\ \A j \in 1..(i - 1) : timestamp[j] \notin {":", "."}
     THEN "-" ELSE timestamp[i]]

\* timestamp.replace(/[:.]/g, '-')
Sanitize(timestamp) ==
  [i \in 1..Len(timestamp) |->
     IF timestamp[i] \in {":", "."} THEN "-" ELSE timestamp[i]]

\* s.split('-'): the pieces between the dashes, empty ones included.
RECURSIVE Split(_)
Split(s) ==
  IF Occurrences(s, <<"-">>) = {} THEN <<s>>
  ELSE LET i == SetMin(Occurrences(s, <<"-">>)) IN
       <<SubSeq(s, 1, i - 1)>> \o Split(SubSeq(s, i + 1, Len(s)))

\* The answer of the listing before any request.
NoListing == [done |-> FALSE, posts |-> {}, json |-> <<>>]

\* posts.json before the generator ran
NoSnapshot == [done |-> FALSE, json |-> <<>>]

\* ---- initial state: the component as constructed; the store fills by Upload,
\* before the page mounts or after.
NoEvent == [kind |-> "none"]

\* Every useState and useRef at its initial value, nothing mounted.
Unmounted ==
  /\ displayedPosts = <<>>
  /\ currentIndex = 0
  /\ hoveredPost = 0
  /\ displayedPost = 0
  /\ isDragging = FALSE
  /\ isTouching = FALSE
  /\ lastHoveredPost = 0
  /\ activePost = 0
  /\ event = NoEvent
  /\ allPosts = <<>>
  /\ displayedCount = POSTS_PER_LOAD
  /\ isLoading = TRUE
  /\ isLoadingMore = FALSE
  /\ newPostsCount = 0
  /\ showNewPostsBubble = FALSE
  /\ hasLoadedOnce = FALSE
  /\ previousPostIds = {}
  /\ mounted = FALSE
  /\ inflight = EmptyBag
  /\ timers = EmptyBag
  /\ listenerSees = FALSE
  /\ latest = <<>>
  /\ last = NoOp
  /\ crashed = FALSE

Constructed ==
  /\ view \in Views
  /\ store = {}
  /\ Unmounted

NoAnswer == [status |-> 0]

\* The image endpoint before any request, nothing on its disk.
Unserved ==
  /\ snapshot = NoSnapshot
  /\ disk = {}
  /\ served = NoAnswer

\* The store directory before any upload.
EmptyStore ==
  /\ files = {}
  /\ uploads = <<>>
  /\ listing = NoListing
  /\ Unserved

Init == Constructed /\ api = "pages" /\ EmptyStore

\* ---- loadPosts, first half: the call up to its first await. The fetch reads
\* the store when the request is served; the response waits in inflight.
shouldShowLoading(isInitialLoad) ==
  IF view = "home" THEN TRUE ELSE isInitialLoad \/ ~hasLoadedOnce

StartLoad(isInitialLoad, manual) ==
  /\ Pending < MaxPending
  /\ isLoading' = (IF shouldShowLoading(isInitialLoad) THEN TRUE ELSE isLoading)
  /\ inflight' = inflight (+) SetToBag({
                   [initial |-> isInitialLoad, manual |-> manual, quiet |-> manual,
                    loading |-> shouldShowLoading(isInitialLoad),
                    data |-> Listing(store)]})
  /\ latest' = Listing(store)

\* The mount effect: loadPosts(true) and setInterval.
Mount ==
  /\ ~mounted /\ ~crashed
  /\ mounted' = TRUE
  /\ StartLoad(TRUE, FALSE)
  /\ UNCHANGED <<server, pages, crashed, view, store, allPosts, displayedCount, isLoadingMore,
                 newPostsCount, showNewPostsBubble, hasLoadedOnce,
                 previousPostIds, timers, listenerSees, last>>

\* The interval callback: loadPosts(false).
Tick ==
  /\ mounted
  /\ StartLoad(FALSE, FALSE)
  /\ UNCHANGED <<server, pages, crashed, view, store, allPosts, displayedCount, isLoadingMore,
                 newPostsCount, showNewPostsBubble, hasLoadedOnce,
                 previousPostIds, mounted, timers, listenerSees, last>>

\* The scroll-to-top button, rendered once the loading screen is gone.
handleScrollToTop ==
  /\ mounted
  /\ ~(isLoading /\ Len(allPosts) = 0)
  /\ StartLoad(TRUE, TRUE)
  /\ showNewPostsBubble' = (IF view = "home" THEN showNewPostsBubble ELSE FALSE)
  /\ newPostsCount' = (IF view = "home" THEN newPostsCount ELSE 0)
  /\ UNCHANGED <<server, pages, crashed, view, store, allPosts, displayedCount, isLoadingMore,
                 hasLoadedOnce, previousPostIds, mounted, timers, listenerSees, last>>

\* The new-post bubble's click handler.
handleShowNewPosts ==
  /\ mounted
  /\ view # "home"
  /\ showNewPostsBubble /\ newPostsCount > 0
  /\ showNewPostsBubble' = FALSE
  /\ newPostsCount' = 0
  /\ UNCHANGED <<server, pages, crashed, view, store, allPosts, displayedCount, isLoading, isLoadingMore,
                 hasLoadedOnce, previousPostIds, mounted, inflight, timers,
                 listenerSees, latest, last>>

\* ---- loadPosts, second half: the code after the fetch resolved.

\* Variants of the merge and of the count, each wrong in one way; the claims
\* below are re-checked with a variant in place of the original.
MergePostsAppend(prevPosts, fetchedData) ==
  IF Len(prevPosts) = 0 THEN shuffleArray(fetchedData)
  ELSE {prevPosts \o sh : sh \in shuffleArray(FilterNew(fetchedData, Range(prevPosts)))}

MergePostsReplace(prevPosts, fetchedData) == shuffleArray(fetchedData)

MergePostsNoFilter(prevPosts, fetchedData) ==
  IF Len(prevPosts) = 0 THEN shuffleArray(fetchedData)
  ELSE {sh \o prevPosts : sh \in shuffleArray(fetchedData)}

RandomCountNoReset(isInitialLoad, hasNewPosts, prev, newCount, finalPostCount) ==
  IF hasNewPosts THEN Min(prev + newCount, finalPostCount)
  ELSE Min(prev, finalPostCount)

\* random: the setAllPosts updater. New posts are shuffled and put before the
\* known ones; with nothing known the whole fetched list is shuffled.
MergePosts(prevPosts, fetchedData) ==
  IF Len(prevPosts) = 0 THEN shuffleArray(fetchedData)
  ELSE IF FilterNew(fetchedData, Range(prevPosts)) = <<>> THEN {prevPosts}
  ELSE {sh \o prevPosts : sh \in shuffleArray(FilterNew(fetchedData, Range(prevPosts)))}

\* random: newPosts.length as the updater counts it (branch 3 only).
CountNew(prevPosts, fetchedData) ==
  IF Len(prevPosts) = 0 THEN 0 ELSE Len(FilterNew(fetchedData, Range(prevPosts)))

\* random: the displayedCount written by lines 179-203.
RandomCount(isInitialLoad, hasNewPosts, prev, newCount, finalPostCount) ==
  IF isInitialLoad THEN POSTS_PER_LOAD
  ELSE IF hasNewPosts THEN Min(prev + newCount, finalPostCount)
  ELSE Min(prev, finalPostCount)

\* The loads still in flight once l completed. History: when l was a
\* periodic refresh, the manual refreshes in flight are no longer quiet.
Unquiet(B) ==
  [x \in {[r EXCEPT !.quiet = FALSE] : r \in BagToSet(B)} |->
     IF x.manual THEN CopiesIn(x, B) + CopiesIn([x EXCEPT !.quiet = TRUE], B)
     ELSE CopiesIn(x, B)]

Remaining(l) ==
  IF l.initial THEN inflight (-) SetToBag({l})
  ELSE Unquiet(inflight (-) SetToBag({l}))

\* React runs a state updater inside the setState call only when the
\* component has no update pending (the eager path), and at the next render
\* otherwise. hasNewPosts and newPostsCount are locals the updater assigns and
\* lines 180-203 read right after setAllPosts returns: they hold the updater's
\* values when it ran eagerly, and false and 0 when it did not. finalPostCount
\* is read inside the displayedCount updater, which always runs after the
\* allPosts updater.
ApplyLoadRandom(l, eager) ==
  LET k == CountNew(allPosts, l.data)
      hasNewPosts == eager /\ k > 0
  IN
  /\ view = "random"
  /\ \E merged \in MergePosts(allPosts, l.data) :
       /\ allPosts' = merged
       /\ displayedCount' =
            RandomCount(l.initial, hasNewPosts, displayedCount, k, Len(merged))
  /\ newPostsCount' = (IF ~l.initial /\ hasNewPosts THEN k ELSE newPostsCount)
  /\ showNewPostsBubble' =
       (IF ~l.initial /\ hasNewPosts THEN TRUE ELSE showNewPostsBubble)
  /\ hasLoadedOnce' = TRUE
  /\ isLoading' = (IF l.loading THEN FALSE ELSE isLoading)
  /\ inflight' = Remaining(l)
  /\ last' = Did(l)
  /\ UNCHANGED <<server, pages, crashed, view, store, isLoadingMore, previousPostIds, mounted, timers,
                 listenerSees, latest>>

\* feed: new posts are counted against previousPostIdsRef, allPosts is replaced.
FeedCountNew(isInitialLoad, previousIds, fetchedData) ==
  IF ~isInitialLoad /\ previousIds # {}
  THEN Len(FilterNew(fetchedData, previousIds)) ELSE 0

FeedCount(isInitialLoad, prev, fetchedData) ==
  IF isInitialLoad THEN POSTS_PER_LOAD ELSE Min(prev, Len(fetchedData))

ApplyLoadFeed(l) ==
  LET k == FeedCountNew(l.initial, previousPostIds, l.data)
  IN
  /\ view = "feed"
  /\ allPosts' = l.data
  /\ displayedCount' = FeedCount(l.initial, displayedCount, l.data)
  /\ previousPostIds' = Range(l.data)
  /\ newPostsCount' = (IF k > 0 THEN k ELSE newPostsCount)
  /\ showNewPostsBubble' = (IF k > 0 THEN TRUE ELSE showNewPostsBubble)
  /\ hasLoadedOnce' = TRUE
  /\ isLoading' = (IF l.loading THEN FALSE ELSE isLoading)
  /\ inflight' = Remaining(l)
  /\ last' = Did(l)
  /\ UNCHANGED <<server, pages, crashed, view, store, isLoadingMore, mounted, timers, listenerSees, latest>>

\* home: every load replaces allPosts and resets displayedCount.
\* loadPosts takes no argument there; initial and manual only record which
\* caller started the load (the mount effect, the button or the interval).
ApplyLoadHome(l) ==
  /\ view = "home"
  /\ allPosts' = l.data
  /\ displayedCount' = POSTS_PER_LOAD
  /\ isLoading' = FALSE
  /\ inflight' = Remaining(l)
  /\ last' = Did(l)
  /\ UNCHANGED <<server, pages, crashed, view, store, isLoadingMore, newPostsCount, showNewPostsBubble,
                 hasLoadedOnce, previousPostIds, mounted, timers, listenerSees, latest>>

\* ---- loadPosts when the fetch fails (the static snapshot is not there)
\* The API request rejects, or its body is not JSON: the catch logs, the
\* finally clears isLoading when this call had set it.
FailThrows(l) ==
  /\ isLoading' = (IF l.loading THEN FALSE ELSE isLoading)
  /\ inflight' = inflight (-) SetToBag({l})
  /\ UNCHANGED <<server, pages, crashed, view, store, allPosts, displayedCount,
                 isLoadingMore, newPostsCount, showNewPostsBubble, hasLoadedOnce,
                 previousPostIds, mounted, timers, listenerSees, latest, last>>

\* The parsed body { error: ... } of an error answer: an object, no array. It
\* is written as a tuple whose one element is no post.
ErrorBody == <<0>>

\* feed: a periodic refresh with ids recorded calls fetchedData.map before any
\* setState; the TypeError lands in the catch.
ThrowsBeforeSetState(l) ==
  view = "feed" /\ ~l.initial /\ previousPostIds # {}

\* The API answers with an error status and an error body: response.json()
\* resolves and the code goes on with the object. home and feed store it in
\* allPosts, and the next render throws at allPosts.slice; in random the
\* setAllPosts updater throws in that render. The component tree unmounts:
\* its interval is cleared and no pending callback finds a component.
FailErrorBody(l) ==
  /\ ~ThrowsBeforeSetState(l)
  /\ allPosts' = (IF view = "random" THEN allPosts ELSE ErrorBody)
  /\ displayedCount' =
       (IF view = "home" \/ l.initial THEN POSTS_PER_LOAD ELSE displayedCount)
  /\ isLoading' = (IF l.loading THEN FALSE ELSE isLoading)
  /\ crashed' = TRUE
  /\ mounted' = FALSE
  /\ inflight' = EmptyBag
  /\ timers' = EmptyBag
  /\ UNCHANGED <<server, pages, view, store, isLoadingMore, newPostsCount,
                 showNewPostsBubble, hasLoadedOnce, previousPostIds,
                 listenerSees, latest, last>>

FailLoad(l) == FailThrows(l) \/ FailErrorBody(l)

\* ---- load-more
\* The guard of loadMorePosts as the registered scroll listener holds it. The
\* listener is re-registered by an effect after each render, so a scroll event
\* that follows another before React has rendered still runs the old closure,
\* in which isLoadingMore is false.
CanLoadMore == ~listenerSees /\ displayedCount < Len(allPosts)

\* The setTimeout callback of loadMorePosts.
MoreCount(prev, capturedLength) == Min(prev + POSTS_PER_LOAD, capturedLength)

\* handleScroll: near the bottom it calls loadMorePosts; at the top it hides
\* the bubble (random, feed).
handleScroll(nearBottom, atTop) ==
  LET more == nearBottom /\ CanLoadMore
      hide == view # "home" /\ atTop /\ showNewPostsBubble
  IN
  /\ mounted
  /\ more => Pending < MaxPending
  /\ isLoadingMore' = (IF more THEN TRUE ELSE isLoadingMore)
  /\ timers' = (IF more THEN timers (+) SetToBag({Len(allPosts)}) ELSE timers)
  /\ showNewPostsBubble' = (IF hide THEN FALSE ELSE showNewPostsBubble)
  /\ newPostsCount' = (IF hide THEN 0 ELSE newPostsCount)
  /\ UNCHANGED <<server, pages, crashed, view, store, allPosts, displayedCount, isLoading, hasLoadedOnce,
                 previousPostIds, mounted, inflight, listenerSees, latest, last>>

TimerFires(cap) ==
  /\ BagIn(cap, timers)
  /\ displayedCount' = MoreCount(displayedCount, cap)
  /\ isLoadingMore' = FALSE
  /\ listenerSees' = FALSE
  /\ timers' = timers (-) SetToBag({cap})
  /\ UNCHANGED <<server, pages, crashed, view, store, allPosts, isLoading, newPostsCount,
                 showNewPostsBubble, hasLoadedOnce, previousPostIds, mounted,
                 inflight, latest, last>>

\* React commits the render that setIsLoadingMore(true) scheduled and runs its
\* effects: the scroll listener is registered anew over the current state.
Render ==
  /\ listenerSees # isLoadingMore
  /\ listenerSees' = isLoadingMore
  /\ UNCHANGED <<server, pages, crashed, view, store, allPosts, displayedCount, isLoading, isLoadingMore,
                 newPostsCount, showNewPostsBubble, hasLoadedOnce,
                 previousPostIds, mounted, inflight, timers, latest, last>>

\* ---- the server: an upload writes one more image into the store. Its
\* timestamp is the caller's or the current time, so the new image can sort
\* anywhere in the listing. The random page shuffles what it fetches and
\* otherwise only tests ids for membership: ids are interchangeable there, and
\* the model takes them in increasing order.
Upload(id) ==
  /\ id \notin store
  /\ view = "random" => id = Cardinality(store) + 1
  /\ store' = store \cup {id}
  /\ UNCHANGED <<server, pages, crashed, view, allPosts, displayedCount, isLoading, isLoadingMore,
                 newPostsCount, showNewPostsBubble, hasLoadedOnce,
                 previousPostIds, mounted, inflight, timers, listenerSees, latest, last>>

\* ---- the upload route (part_000 under pages/api, part_002 under app/api)
\* The timestamp field of a request (when it is absent the handler takes the
\* current time in the same ISO form) and the name of the uploaded file; the
\* empty name stands for a part without a file name.
Stamps == {<<"t">>, <<"t", ":", "t", ".", "t">>}

Names == {<<>>, PNG, <<"a">>, <<"a">> \o PNG, <<"a">> \o JPG,
          <<"a", "_", "s", "t", "o", "r", "y">> \o PNG}

\* The requests of the runs that go on to write: one timestamp, and the names
\* that differ in how the sidecar paths come out.
StoreStamps == {<<"t", ":", "t", ".", "t">>}

StoreNames == {PNG, <<"a">> \o PNG, <<"a">> \o JPG,
               <<"a", "_", "s", "t", "o", "r", "y">> \o PNG}

\* The metadata of the uploads that fill the store: one prompt, one type, a
\* story or none.
StorePrompts == {<<"p">>}
StoreTypes == {<<"t">>}
StoreStories == {<<>>, <<"s">>}

Apis == {"pages", "app"}

\* file.originalFilename || 'image.png' (pages), file.name (app)
OriginalName(name) ==
  IF api = "pages" /\ name = <<>> THEN IMAGE_PNG ELSE name

DeriveFilename(timestamp, originalName) ==
  IF StartsWith(originalName, <<".">>)
  THEN Sanitize(timestamp) \o originalName
  ELSE Sanitize(timestamp) \o <<"-">> \o originalName

\* The sidecar paths as the upload route derives them.
PromptPath(filename) ==
  IF api = "pages" THEN ReplaceAtEnd(filename, PNG, TXT)
  ELSE ReplaceFirst(filename, PNG, TXT)

StoryPath(filename) ==
  IF api = "pages" THEN ReplaceAtEnd(filename, PNG, STORY_TXT)
  ELSE ReplaceFirst(filename, PNG, STORY_TXT)

\* writeFile: the file at path now holds what upload u wrote as part.
WriteFile(dir, path, u, part, content) ==
  {f \in dir : f.path # path}
    \cup {[path |-> path, by |-> u, part |-> part, content |-> content]}

\* The bytes of an image; what they are plays no part.
BYTES == <<"#">>

LF == "\n"

\* The defaults of the metadata fields
NO_PROMPT == <<"N", "o", " ", "p", "r", "o", "m", "p", "t", " ", "a", "v", "a", "i", "l", "a", "b", "l", "e">>
GENERATED == <<"g", "e", "n", "e", "r", "a", "t", "e", "d">>

\* value || fallback, for strings: the empty string is falsy
orElse(value, fallback) == IF value = <<>> THEN fallback ELSE value

\* `${prompt}\n${type}`
promptContent(prompt, type) ==
  orElse(prompt, NO_PROMPT) \o <<LF>> \o orElse(type, GENERATED)

NoFields == [prompt |-> <<>>, type |-> <<>>, story |-> <<>>]

\* A variant that lets every request through.
HasImageAlways(hasImage) == TRUE

\* if (!file): the request carries an image part.
HasImage(hasImage) == hasImage

\* The handler up to its first write: 400 without an image, else the file
\* name is derived. prior records the uploads answered before this one came.
UploadRequest(timestamp, name, hasImage, prompt, type, story) ==
  /\ Len(uploads) < MaxUploads
  /\ uploads' = Append(uploads,
       IF ~HasImage(hasImage)
       THEN [timestamp |-> <<>>, name |-> <<>>, story |-> FALSE, image |-> FALSE,
             fields |-> NoFields,
             filename |-> <<>>, pc |-> "done", status |-> 400,
             prior |-> {i \in 1..Len(uploads) : uploads[i].pc = "done"}]
       ELSE [timestamp |-> timestamp, name |-> name, story |-> story # <<>>,
             fields |-> [prompt |-> prompt, type |-> type, story |-> story],
             image |-> hasImage,
             filename |-> DeriveFilename(timestamp, OriginalName(name)),
             pc |-> "image", status |-> 0,
             prior |-> {i \in 1..Len(uploads) : uploads[i].pc = "done"}])
  /\ UNCHANGED <<client, pages, images, snapshot, api, files, listing>>

\* A write that fails throws into the catch: 500, nothing undone.
Failed(u) == [uploads EXCEPT ![u].pc = "done", ![u].status = 500]

WriteImage(u, ok) ==
  /\ uploads[u].pc = "image"
  /\ IF ok
     THEN /\ files' = WriteFile(files, uploads[u].filename, u, "image", BYTES)
          /\ uploads' = [uploads EXCEPT ![u].pc = "prompt"]
     ELSE /\ files' = files
          /\ uploads' = Failed(u)
  /\ UNCHANGED <<client, pages, images, snapshot, api, listing>>

WritePrompt(u, ok) ==
  /\ uploads[u].pc = "prompt"
  /\ IF ok
     THEN /\ files' = WriteFile(files, PromptPath(uploads[u].filename), u, "prompt",
                                promptContent(uploads[u].fields.prompt,
                                              uploads[u].fields.type))
          /\ uploads' = IF uploads[u].story
                         THEN [uploads EXCEPT ![u].pc = "story"]
                         ELSE [uploads EXCEPT ![u].pc = "done", ![u].status = 200]
     ELSE /\ files' = files
          /\ uploads' = Failed(u)
  /\ UNCHANGED <<client, pages, images, snapshot, api, listing>>

WriteStory(u, ok) ==
  /\ uploads[u].pc = "story"
  /\ IF ok
     THEN /\ files' = WriteFile(files, StoryPath(uploads[u].filename), u, "story",
                                uploads[u].fields.story)
          /\ uploads' = [uploads EXCEPT ![u].pc = "done", ![u].status = 200]
     ELSE /\ files' = files
          /\ uploads' = Failed(u)
  /\ UNCHANGED <<client, pages, images, snapshot, api, listing>>

\* ---- the posts listing (part_007; copy-db.js builds posts.json the same way)
\* What a sidecar read finds: who wrote the file and as what, or nothing.
ReadFile(dir, path) ==
  {[by |-> f.by, part |-> f.part] : f \in {g \in dir : g.path = path}}

JoinDash(a, b, c) == a \o <<"-">> \o b \o <<"-">> \o c

ParseTimestamp(file) ==
  LET rawTimestamp == ReplaceFirst(file, PNG, <<>>)
      parts == Split(rawTimestamp)
  IN IF Len(parts) >= 4 /\ Len(parts[4]) = 6
     THEN JoinDash(parts[1], parts[2], parts[3]) \o <<" ">>
            \o SubSeq(parts[4], 1, 2) \o <<":">>
            \o SubSeq(parts[4], 3, 4) \o <<":">>
            \o SubSeq(parts[4], 5, 6)
     ELSE rawTimestamp

IsImage(file) == EndsWith(file, PNG)

PostOf(dir, file) ==
  [id |-> file,
   timestamp |-> ParseTimestamp(file),
   prompt |-> ReadFile(dir, ReplaceFirst(file, PNG, TXT)),
   story |-> ReadFile(dir, ReplaceFirst(file, PNG, STORY_TXT))]

\* s.split(sep) for a separator of one character
RECURSIVE SplitOn(_, _)
SplitOn(s, sep) ==
  IF Occurrences(s, <<sep>>) = {} THEN <<s>>
  ELSE LET i == SetMin(Occurrences(s, <<sep>>)) IN
       <<SubSeq(s, 1, i - 1)>> \o SplitOn(SubSeq(s, i + 1, Len(s)), sep)

WHITESPACE == {" ", LF}

RECURSIVE trimStart(_)
trimStart(s) ==
  IF s # <<>> /\ Head(s) \in WHITESPACE THEN trimStart(Tail(s)) ELSE s

RECURSIVE trimEnd(_)
trimEnd(s) ==
  IF s # <<>> /\ s[Len(s)] \in WHITESPACE
  THEN trimEnd(SubSeq(s, 1, Len(s) - 1)) ELSE s

\* String.prototype.trim
trim(s) == trimEnd(trimStart(s))

\* The text of a file, <<"absent">> when there is none of that name.
readFileSync(dir, path) ==
  IF \E f \in dir : f.path = path
  THEN (CHOOSE f \in dir : f.path = path).content
  ELSE <<"absent">>

\* prompt and type as the listing reads them from the prompt sidecar
promptOf(content) ==
  IF content = <<"absent">> THEN NO_PROMPT
  ELSE orElse(SplitOn(content, LF)[1], NO_PROMPT)

typeOf(content) ==
  IF content = <<"absent">> \/ Len(SplitOn(content, LF)) <= 1 THEN GENERATED
  ELSE orElse(trim(SplitOn(content, LF)[2]), GENERATED)

storyOf(content) == IF content = <<"absent">> THEN <<>> ELSE trim(content)

\* Math.random(): a double below 1 with a mantissa of RandomBits bits, written
\* as its numerator over 2^RandomBits.
Randoms == 0..(2^RandomBits - 1)

RECURSIVE BitLength(_)
BitLength(v) == IF v = 0 THEN 0 ELSE 1 + BitLength(v \div 2)

\* The product of two doubles, rounded to the mantissa (ties to even).
RoundToMantissa(v) ==
  LET drop == BitLength(v) - RandomBits IN
  IF drop <= 0 THEN v
  ELSE LET q == v \div (2^drop)
           r == v % (2^drop)
           up == r > 2^(drop - 1) \/ (r = 2^(drop - 1) /\ q % 2 = 1)
       IN (IF up THEN q + 1 ELSE q) * (2^drop)

\* A variant that rounds the product up.
randomIntCeiling(r, n) == (RoundToMantissa(r * n) + 2^RandomBits - 1) \div (2^RandomBits)

\* Math.floor(Math.random() * n)
randomInt(r, n) == RoundToMantissa(r * n) \div (2^RandomBits)

\* The characters of the file names, in the order of their code units and
\* in the order of the root collation (a letter and its capital differ at
\* the third level only, the small one first).
CODE_UNITS == <<" ", "#", "-", ".", "1", "2", "5", ":", "A", "_", "a", "g", "j",
                "n", "o", "p", "r", "s", "t", "x", "y">>

COLLATION == <<" ", "_", "-", ":", ".", "#", "1", "2", "5", "a", "g", "j",
               "n", "o", "p", "r", "s", "t", "x", "y">>

CAPITALS == {"A"}

toLower(c) == IF c = "A" THEN "a" ELSE c

IndexIn(seq, c) == CHOOSE i \in DOMAIN seq : seq[i] = c

CodeUnits(str) == [i \in DOMAIN str |-> IndexIn(CODE_UNITS, str[i])]

Primary(str) == [i \in DOMAIN str |-> IndexIn(COLLATION, toLower(str[i]))]

Tertiary(str) == [i \in DOMAIN str |-> IF str[i] \in CAPITALS THEN 1 ELSE 0]

\* x before y in the order of the dictionary, for tuples of numbers
LexLess(x, y) ==
  \E i \in 1..(Min(Len(x), Len(y)) + 1) :
    /\ SubSeq(x, 1, i - 1) = SubSeq(y, 1, i - 1)
    /\ \/ i > Len(x) /\ i <= Len(y)
       \/ i <= Len(x) /\ i <= Len(y) /\ x[i] < y[i]

\* a.localeCompare(b) < 0
localeLess(a, b) ==
  \/ LexLess(Primary(a), Primary(b))
  \/ Primary(a) = Primary(b) /\ LexLess(Tertiary(a), Tertiary(b))

\* A variant that leaves the posts as the directory gave them.
sortPostsNot(posts) == posts

\* posts.sort((a, b) => b.timestamp.localeCompare(a.timestamp)): the sort is
\* stable, each post goes behind the ones that are not before it.
RECURSIVE sortPosts(_)
sortPosts(posts) ==
  IF posts = <<>> THEN posts
  ELSE LET sorted == sortPosts(SubSeq(posts, 1, Len(posts) - 1))
           x == posts[Len(posts)]
           k == Cardinality({i \in DOMAIN sorted :
                              ~localeLess(sorted[i].timestamp, x.timestamp)})
       IN SubSeq(sorted, 1, k) \o <<x>> \o SubSeq(sorted, k + 1, Len(sorted))

\* fs.readdirSync: the names in an order the code has no say in. Only the
\* order of the images matters, the filter keeps it.
Orders(S) ==
  {order \in [1..Cardinality(S) -> S] :
     \A i, j \in 1..Cardinality(S) : order[i] = order[j] => i = j}

Images(dir) == {f.path : f \in {g \in dir : IsImage(g.path)}}

\* The post object of the response; r holds its three random draws.
jsonPost(dir, file, r) ==
  [id |-> file,
   filename |-> file,
   timestamp |-> ParseTimestamp(file),
   prompt |-> promptOf(readFileSync(dir, ReplaceFirst(file, PNG, TXT))),
   type |-> typeOf(readFileSync(dir, ReplaceFirst(file, PNG, TXT))),
   story |-> storyOf(readFileSync(dir, ReplaceFirst(file, PNG, STORY_TXT))),
   likes |-> randomInt(r[1], 50) + 5,
   comments |-> randomInt(r[2], 10),
   shares |-> randomInt(r[3], 5)]

\* The whole response for one enumeration of the directory and one run of
\* random draws, three for each image.
Response(dir, order, draws) ==
  sortPosts([i \in DOMAIN order |->
               jsonPost(dir, order[i],
                        <<draws[3 * i - 2], draws[3 * i - 1], draws[3 * i]>>)])

\* The listing handler, its random draws taken from randoms.
ListPostsWith(randoms) ==
  /\ \E order \in Orders(Images(files)) :
       \E draws \in [1..(3 * Len(order)) -> randoms] :
         listing' = [done |-> TRUE,
                     posts |-> {PostOf(files, f) : f \in Images(files)},
                     json |-> Response(files, order, draws)]
  /\ UNCHANGED <<client, pages, images, snapshot, api, files, uploads>>

\* The listing with Math.random held at 0, where the counters play no part.
ListPosts == ListPostsWith({0})

\* ---- the snapshot generator (scripts/copy-db.js), run on a copy of the
\* store directory
snapshotImagesAll(dir) == {f.path : f \in dir}

\* files.filter(file => file.endsWith('.png'))
snapshotImages(dir) == {f.path : f \in {g \in dir : EndsWith(g.path, PNG)}}

snapshotTimestamp(file) ==
  LET rawTimestamp == ReplaceFirst(file, PNG, <<>>)
      parts == Split(rawTimestamp)
  IN IF Len(parts) >= 4 /\ Len(parts[4]) = 6
     THEN JoinDash(parts[1], parts[2], parts[3]) \o <<" ">>
            \o SubSeq(parts[4], 1, 2) \o <<":">>
            \o SubSeq(parts[4], 3, 4) \o <<":">>
            \o SubSeq(parts[4], 5, 6)
     ELSE rawTimestamp

snapshotPost(dir, file, r) ==
  [id |-> file,
   filename |-> file,
   timestamp |-> snapshotTimestamp(file),
   prompt |-> promptOf(readFileSync(dir, ReplaceFirst(file, PNG, TXT))),
   type |-> typeOf(readFileSync(dir, ReplaceFirst(file, PNG, TXT))),
   story |-> storyOf(readFileSync(dir, ReplaceFirst(file, PNG, STORY_TXT))),
   likes |-> randomInt(r[1], 50) + 5,
   comments |-> randomInt(r[2], 10),
   shares |-> randomInt(r[3], 5)]

generatePostsJson(randoms) ==
  /\ \E order \in Orders(snapshotImages(files)) :
       \E draws \in [1..(3 * Len(order)) -> randoms] :
         snapshot' =
           [done |-> TRUE,
            json |-> sortPosts([i \in DOMAIN order |->
                       snapshotPost(files, order[i],
                         <<draws[3 * i - 2], draws[3 * i - 1], draws[3 * i]>>)])]
  /\ UNCHANGED <<client, pages, images, api, files, uploads, listing>>

\* Requests only: every timestamp and name, no write.
NextRequests ==
  \E timestamp \in Stamps, name \in Names, hasImage \in BOOLEAN,
     prompt \in StorePrompts, type \in StoreTypes, story \in StoreStories :
    UploadRequest(timestamp, name, hasImage, prompt, type, story)

NextUpload ==
  \/ \E timestamp \in StoreStamps, name \in StoreNames,
        hasImage \in BOOLEAN,
        prompt \in StorePrompts, type \in StoreTypes, story \in StoreStories :
       UploadRequest(timestamp, name, hasImage, prompt, type, story)
  \/ \E u \in DOMAIN uploads, ok \in BOOLEAN : WriteImage(u, ok)
  \/ \E u \in DOMAIN uploads, ok \in BOOLEAN : WritePrompt(u, ok)
  \/ \E u \in DOMAIN uploads, ok \in BOOLEAN : WriteStory(u, ok)

NextServer ==
  \/ NextUpload
  \/ ListPosts

\* The server alone, under either upload route; the page stays as constructed.
InitServer == Constructed /\ view = "home" /\ api \in Apis /\ EmptyStore

SpecRequests == InitServer /\ [][NextRequests]_vars

\* The upload route alone.
SpecUpload == InitServer /\ [][NextUpload]_vars

SpecServer == InitServer /\ [][NextServer]_vars

\* ---- the listing over a store that was filled by hand or by a generator
\* The pieces of such a file name: a dash, a letter, six digits, '.png'.
SIX == <<"2", "1", "5", "5", "5", "5">>

StemTokens == {<<"-">>, <<"a">>, SIX, PNG}

RECURSIVE Strings(_)
Strings(n) ==
  IF n = 0 THEN {<<>>}
  ELSE Strings(n - 1) \cup {t \o r : t \in StemTokens, r \in Strings(n - 1)}

\* The store holds one image, whatever its name before the extension.
InitParse ==
  /\ Constructed /\ view = "home"
  /\ api = "pages"
  /\ files \in {{[path |-> r \o PNG, by |-> 0, part |-> "image", content |-> BYTES]} :
                  r \in Strings(MaxStemTokens)}
  /\ uploads = <<>>
  /\ listing = NoListing
  /\ Unserved

NextParse == ListPosts

SpecParse == InitParse /\ [][NextParse]_vars

\* ---- the listing and the snapshot generator over one store: file names that
\* are no timestamps, two images of one timestamp, a prompt file
SortStems == {<<"a">>, <<"A">>, <<"_">>, <<"1", "-", "1", "-", "1", "-">> \o SIX,
              <<"1", "-", "1", "-", "1", "-">> \o SIX \o <<"-", "a">>}

SortFiles ==
  {[path |-> r \o PNG, by |-> 0, part |-> "image", content |-> BYTES] :
     r \in SortStems}
  \cup {[path |-> <<"a">> \o TXT, by |-> 0, part |-> "prompt",
         content |-> <<"p", LF, "t">>]}

InitSort ==
  /\ Constructed /\ view = "home"
  /\ api = "pages"
  /\ files \in SUBSET SortFiles
  /\ uploads = <<>>
  /\ listing = NoListing
  /\ Unserved

NextSort == ListPosts \/ generatePostsJson({0})

SpecSort == InitSort /\ [][NextSort]_vars

\* ---- upload, then listing: texts with a line break and with white space
\* around them, and fields that are left out
RoundTripPrompts == {<<>>, <<" ", "p">>, <<"p", LF, "q">>}

RoundTripTypes == {<<>>, <<"t">>, <<"t", " ">>}

RoundTripStories == {<<>>, <<" ", "s">>}

NextRoundTrip ==
  \/ \E timestamp \in StoreStamps, hasImage \in BOOLEAN,
        prompt \in RoundTripPrompts, type \in RoundTripTypes,
        story \in RoundTripStories :
       UploadRequest(timestamp, <<"a">> \o PNG, hasImage, prompt, type, story)
  \/ \E u \in DOMAIN uploads, ok \in BOOLEAN : WriteImage(u, ok)
  \/ \E u \in DOMAIN uploads, ok \in BOOLEAN : WritePrompt(u, ok)
  \/ \E u \in DOMAIN uploads, ok \in BOOLEAN : WriteStory(u, ok)
  \/ ListPosts

SpecRoundTrip == InitServer /\ [][NextRoundTrip]_vars

\* ---- the engagement counters: one deployment, the server or the static
\* export, answers once over a store of one image
InitCounters ==
  /\ Constructed /\ view = "home"
  /\ api = "pages"
  /\ files = {[path |-> <<"a">> \o PNG, by |-> 0, part |-> "image", content |-> BYTES]}
  /\ uploads = <<>>
  /\ listing = NoListing
  /\ Unserved

NextCounters ==
  \/ ~listing.done /\ ~snapshot.done /\ ListPostsWith(Randoms)
  \/ ~listing.done /\ ~snapshot.done /\ generatePostsJson(Randoms)

SpecCounters == InitCounters /\ [][NextCounters]_vars

\* ---- the demo page (part_006): one post more is revealed at every tick
DemoIds == 1..MaxDemoPosts

Reverse(s) == [i \in 1..Len(s) |-> s[Len(s) + 1 - i]]

\* What the demo, strip and drawer pages have no part in.
feedOnly == <<displayedCount, isLoadingMore, newPostsCount, showNewPostsBubble,
              hasLoadedOnce, previousPostIds, inflight, timers, listenerSees,
              latest, last, crashed>>

\* The mount effect: loadAllPosts to its end, and the effect on [allPosts]
\* that shows the first post of the reversed list. A fetch that throws
\* leaves allPosts empty.
loadAllPosts(ok) ==
  /\ view = "demo" /\ ~mounted
  /\ mounted' = TRUE
  /\ isLoading' = FALSE
  /\ allPosts' = (IF ok THEN Listing(store) ELSE allPosts)
  /\ IF ok /\ store # {}
     THEN /\ displayedPosts' = <<Reverse(Listing(store))[1]>>
          /\ currentIndex' = 0
     ELSE UNCHANGED <<displayedPosts, currentIndex>>
  /\ UNCHANGED <<server, feedOnly, view, store, hoveredPost, displayedPost,
                 isDragging, isTouching, lastHoveredPost, activePost, event>>

\* The interval callback; with no posts it returns at once.
addNextPost ==
  /\ view = "demo" /\ mounted
  /\ Len(allPosts) # 0
  /\ LET nextIndex == currentIndex + 1
         reversedPosts == Reverse(allPosts)
     IN IF nextIndex >= Len(allPosts)
        THEN /\ displayedPosts' = <<reversedPosts[1]>>
             /\ currentIndex' = 1
        ELSE /\ displayedPosts' = <<reversedPosts[nextIndex + 1]>> \o displayedPosts
             /\ currentIndex' = nextIndex
  /\ UNCHANGED <<server, feedOnly, view, store, allPosts, isLoading, mounted,
                 hoveredPost, displayedPost, isDragging, isTouching,
                 lastHoveredPost, activePost, event>>

InitDemo ==
  /\ view = "demo"
  /\ store \in SUBSET DemoIds
  /\ Unmounted
  /\ api = "pages" /\ EmptyStore

NextDemo ==
  \/ \E ok \in BOOLEAN : loadAllPosts(ok)
  \/ addNextPost

SpecDemo == InitDemo /\ [][NextDemo]_vars

\* ---- the strip page (app/hover/page.tsx): a press, a touch or a pointer
\* movement selects the post whose band of the container holds the pointer.
\* Offsets and heights are whole pixels and the division is exact.
Heights == 1..MaxHeight

\* clientY - containerRect.top, for a pointer that can be outside the container
Offsets == (0 - 2)..(MaxHeight + 2)

Max(a, b) == IF a >= b THEN a ELSE b

\* Math.floor(mouseY / (containerHeight / allPosts.length))
bandIndex(y, h, len) == (y * len) \div h

\* A variant that does not clamp.
validIndexUnclamped(index, len) == index

\* Math.max(0, Math.min(touchedIndex, allPosts.length - 1))
validIndex(index, len) == Max(0, Min(index, len - 1))

\* A variant that forgets the selection on release.
releasedNull(lastHovered, displayed) == 0

\* if (lastHoveredPostRef.current) setDisplayedPost(lastHoveredPostRef.current)
released(lastHovered, displayed) ==
  IF lastHovered # 0 THEN lastHovered ELSE displayed

notStrip == <<server, feedOnly, view, store, allPosts, isLoading, mounted,
              displayedPosts, currentIndex, activePost>>

\* The three assignments of a selection; an index that names no post
\* selects nothing.
selectIndex(index) ==
  IF index >= 0 /\ index < Len(allPosts)
  THEN /\ hoveredPost' = allPosts[index + 1]
       /\ displayedPost' = allPosts[index + 1]
       /\ lastHoveredPost' = allPosts[index + 1]
  ELSE UNCHANGED <<hoveredPost, displayedPost, lastHoveredPost>>

\* The mount effect: loadPosts to its end; a random post is shown.
loadPostsStrip(ok, randomIndex) ==
  /\ view = "hover" /\ ~mounted
  /\ mounted' = TRUE
  /\ isLoading' = FALSE
  /\ allPosts' = (IF ok THEN Listing(store) ELSE allPosts)
  /\ IF ok /\ store # {}
     THEN /\ randomIndex < Cardinality(store)
          /\ displayedPost' = Listing(store)[randomIndex + 1]
          /\ lastHoveredPost' = Listing(store)[randomIndex + 1]
     ELSE /\ randomIndex = 0
          /\ UNCHANGED <<displayedPost, lastHoveredPost>>
  /\ UNCHANGED <<server, feedOnly, view, store, displayedPosts, currentIndex,
                 activePost, hoveredPost, isDragging, isTouching, event>>

\* The handlers of the container. A mouse event reaches them only with the
\* pointer over the container; a touch that began on it also from outside.
handleMouseDown(y, h) ==
  /\ view = "hover" /\ mounted /\ y >= 0 /\ y < h
  /\ isDragging' = TRUE
  /\ IF Len(allPosts) = 0
     THEN UNCHANGED <<hoveredPost, displayedPost, lastHoveredPost>>
     ELSE selectIndex(bandIndex(y, h, Len(allPosts)))
  /\ event' = [kind |-> "mousedown", y |-> y, h |-> h]
  /\ UNCHANGED <<notStrip, isTouching>>

handleMouseMove(y, h) ==
  /\ view = "hover" /\ mounted /\ y >= 0 /\ y < h
  /\ Len(allPosts) # 0
  /\ selectIndex(bandIndex(y, h, Len(allPosts)))
  /\ event' = [kind |-> "mousemove", y |-> y, h |-> h]
  /\ UNCHANGED <<notStrip, isDragging, isTouching>>

\* The window listener, registered while isDragging.
handleGlobalMouseMove(y, h) ==
  /\ view = "hover" /\ mounted /\ isDragging
  /\ Len(allPosts) # 0
  /\ selectIndex(bandIndex(y, h, Len(allPosts)))
  /\ event' = [kind |-> "mousedrag", y |-> y, h |-> h]
  /\ UNCHANGED <<notStrip, isDragging, isTouching>>

\* handleMouseUp, handleMouseLeave and the window's handleGlobalMouseUp
handleMouseUp(kind) ==
  /\ view = "hover" /\ mounted
  /\ kind = "mouseup" \/ kind = "mouseleave"
  /\ isDragging' = FALSE
  /\ displayedPost' = released(lastHoveredPost, displayedPost)
  /\ hoveredPost' = 0
  /\ event' = [kind |-> kind, y |-> 0, h |-> 0]
  /\ UNCHANGED <<notStrip, isTouching, lastHoveredPost>>

handleTouchStart(y, h) ==
  /\ view = "hover" /\ mounted /\ y >= 0 /\ y < h
  /\ isTouching' = TRUE
  /\ IF Len(allPosts) = 0
     THEN UNCHANGED <<hoveredPost, displayedPost, lastHoveredPost>>
     ELSE selectIndex(validIndex(bandIndex(y, h, Len(allPosts)), Len(allPosts)))
  /\ event' = [kind |-> "touchstart", y |-> y, h |-> h]
  /\ UNCHANGED <<notStrip, isDragging>>

\* handleTouchMove and the document's handleGlobalTouchMove: a finger that
\* is down moves.
handleTouchMove(y, h) ==
  /\ view = "hover" /\ mounted /\ isTouching
  /\ Len(allPosts) # 0
  /\ selectIndex(validIndex(bandIndex(y, h, Len(allPosts)), Len(allPosts)))
  /\ event' = [kind |-> "touchmove", y |-> y, h |-> h]
  /\ UNCHANGED <<notStrip, isDragging, isTouching>>

\* handleTouchEnd and the document's handleGlobalTouchEnd
handleTouchEnd ==
  /\ view = "hover" /\ mounted /\ isTouching
  /\ isTouching' = FALSE
  /\ displayedPost' = released(lastHoveredPost, displayedPost)
  /\ hoveredPost' = 0
  /\ event' = [kind |-> "touchend", y |-> 0, h |-> 0]
  /\ UNCHANGED <<notStrip, isDragging, lastHoveredPost>>

InitStrip ==
  /\ view = "hover"
  /\ store \in SUBSET Ids
  /\ Unmounted
  /\ api = "pages" /\ EmptyStore

NextStrip ==
  \/ \E ok \in BOOLEAN, randomIndex \in 0..(NumIds - 1) : loadPostsStrip(ok, randomIndex)
  \/ \E y \in Offsets, h \in Heights : handleMouseDown(y, h)
  \/ \E y \in Offsets, h \in Heights : handleMouseMove(y, h)
  \/ \E y \in Offsets, h \in Heights : handleGlobalMouseMove(y, h)
  \/ \E kind \in {"mouseup", "mouseleave"} : handleMouseUp(kind)
  \/ \E y \in Offsets, h \in Heights : handleTouchStart(y, h)
  \/ \E y \in Offsets, h \in Heights : handleTouchMove(y, h)
  \/ handleTouchEnd

SpecStrip == InitStrip /\ [][NextStrip]_vars

\* ---- the drawer page (app/drawer/page.tsx): the scroll position picks the
\* post drawn on top.
notDrawer == <<server, feedOnly, view, store, displayedPosts, currentIndex,
               hoveredPost, displayedPost, isDragging, isTouching, lastHoveredPost>>

\* What handleScroll makes active. bestPost is the post with the lowest
\* weighted score; the score is not computed here, any post can be the best.
activeAt(scrollTop, viewportHeight, scrollHeight, bestPost, posts) ==
  IF scrollTop <= EDGE THEN posts[1]
  ELSE IF scrollTop + viewportHeight >= scrollHeight - EDGE THEN posts[Len(posts)]
  ELSE bestPost

\* The mount effect: loadPosts to its end, and the effect on [allPosts] that
\* registers the scroll listener and calls handleScroll once, at the top.
loadPostsDrawer(ok, viewportHeight, scrollHeight) ==
  /\ view = "drawer" /\ ~mounted
  /\ mounted' = TRUE
  /\ isLoading' = FALSE
  /\ allPosts' = (IF ok THEN Listing(store) ELSE allPosts)
  /\ IF ok /\ store # {}
     THEN /\ scrollHeight >= viewportHeight
          /\ \E bestPost \in store :
               activePost' = activeAt(0, viewportHeight, scrollHeight, bestPost,
                                      Listing(store))
          /\ event' = [kind |-> "check", scrollTop |-> 0,
                       viewportHeight |-> viewportHeight,
                       scrollHeight |-> scrollHeight]
     ELSE /\ viewportHeight = 1 /\ scrollHeight = 1
          /\ UNCHANGED <<activePost, event>>
  /\ UNCHANGED <<notDrawer>>

\* The scroll listener. There is something to scroll, and the position lies
\* in the scrollable range.
handleScrollDrawer(scrollTop, viewportHeight, scrollHeight, bestPost) ==
  /\ view = "drawer" /\ mounted
  /\ Len(allPosts) # 0
  /\ scrollHeight > viewportHeight
  /\ scrollTop <= scrollHeight - viewportHeight
  /\ bestPost \in Range(allPosts)
  /\ activePost' = activeAt(scrollTop, viewportHeight, scrollHeight, bestPost, allPosts)
  /\ event' = [kind |-> "scroll", scrollTop |-> scrollTop,
               viewportHeight |-> viewportHeight, scrollHeight |-> scrollHeight]
  /\ UNCHANGED <<notDrawer, allPosts, isLoading, mounted>>

InitDrawer ==
  /\ view = "drawer"
  /\ store \in SUBSET Ids
  /\ Unmounted
  /\ api = "pages" /\ EmptyStore

NextDrawer ==
  \/ \E ok \in BOOLEAN, viewportHeight \in 1..MaxViewport,
        scrollHeight \in 1..(MaxViewport + MaxScroll) :
       loadPostsDrawer(ok, viewportHeight, scrollHeight)
  \/ \E scrollTop \in 0..MaxScroll, viewportHeight \in 1..MaxViewport,
        scrollHeight \in 1..(MaxViewport + MaxScroll), bestPost \in Ids :
       handleScrollDrawer(scrollTop, viewportHeight, scrollHeight, bestPost)

SpecDrawer == InitDrawer /\ [][NextDrawer]_vars

\* ---- the image endpoint (app/api/images/[filename]/route.ts and
\* pages/api/images/[filename].ts). A path is the tuple of its segments below
\* the working directory; the bytes of a file are told apart by its path.
PUBLIC_DB == <<"public", "db">>
DB == <<"db">>

\* The files the disk can hold: an image in either directory or in both, and
\* the snapshot next to public/db.
DiskFiles == {DB \o <<"a.png">>, PUBLIC_DB \o <<"a.png">>,
              DB \o <<"b.png">>, <<"public", "posts.json">>}

SegmentNames == {"a.png", "b.png", "posts.json", ".."}

\* The [filename] parameter after decoding: an encoded slash in the URL
\* gives a name of several segments.
RECURSIVE SegmentsUpTo(_)
SegmentsUpTo(n) ==
  IF n = 0 THEN {<<>>}
  ELSE SegmentsUpTo(n - 1)
         \cup {Append(r, x) : r \in {q \in SegmentsUpTo(n - 1) : Len(q) = n - 1},
                               x \in SegmentNames}

Filenames == SegmentsUpTo(MaxSegments) \ {<<>>}

\* path.join: '..' drops the segment before it.
RECURSIVE Normalize(_, _)
Normalize(done, rest) ==
  IF rest = <<>> THEN done
  ELSE IF Head(rest) = ".."
       THEN Normalize(IF done = <<>> THEN done ELSE SubSeq(done, 1, Len(done) - 1),
                      Tail(rest))
       ELSE Normalize(Append(done, Head(rest)), Tail(rest))

join(dir, filename) == Normalize(<<>>, dir \o filename)

IsPrefix(a, b) == Len(a) <= Len(b) /\ SubSeq(b, 1, Len(a)) = a

\* fs.existsSync: true of a file and of a directory
existsSync(path) == \E f \in disk : IsPrefix(path, f)

\* A variant that looks in db alone.
filePathDbOnly(publicDbPath, dbPath) ==
  IF existsSync(dbPath) THEN dbPath ELSE <<"null">>

\* The path the endpoint settles on, <<"null">> for none.
filePath(publicDbPath, dbPath) ==
  IF existsSync(publicDbPath) THEN publicDbPath
  ELSE IF existsSync(dbPath) THEN dbPath
  ELSE <<"null">>

\* GET: 404 without a path, the bytes of the file with one; readFileSync
\* throws on a directory and the catch answers 500.
GET(filename) ==
  LET path == filePath(join(PUBLIC_DB, filename), join(DB, filename)) IN
  /\ served' = [filename |-> filename,
                status |-> IF path = <<"null">> THEN 404
                           ELSE IF path \in disk THEN 200 ELSE 500,
                body |-> IF path \in disk THEN path ELSE <<>>]
  /\ UNCHANGED <<client, pages, api, files, uploads, listing, snapshot, disk>>

InitImages ==
  /\ view = "home" /\ store = {} /\ Unmounted
  /\ api \in Apis
  /\ files = {} /\ uploads = <<>> /\ listing = NoListing
  /\ snapshot = NoSnapshot
  /\ disk \in SUBSET DiskFiles
  /\ served = NoAnswer

NextImages == \E filename \in Filenames : GET(filename)

SpecImages == InitImages /\ [][NextImages]_vars

\* ---- specifications
\* The random page alone.
NextRandom ==
  \/ Mount
  \/ Tick
  \/ handleScrollToTop
  \/ handleShowNewPosts
  \/ \E l \in BagToSet(inflight), eager \in BOOLEAN : ApplyLoadRandom(l, eager)
  \/ \E nearBottom \in BOOLEAN, atTop \in BOOLEAN : handleScroll(nearBottom, atTop)
  \/ \E cap \in 0..NumIds : TimerFires(cap)
  \/ Render
  \/ \E id \in Ids : Upload(id)

InitRandom == Init /\ view = "random"

SpecRandom == InitRandom /\ [][NextRandom]_vars

\* Any of the three pages.
Next ==
  \/ NextRandom
  \/ \E l \in BagToSet(inflight) : ApplyLoadFeed(l)
  \/ \E l \in BagToSet(inflight) : ApplyLoadHome(l)

Spec == Init /\ [][Next]_vars

\* Any of the three pages, with fetches that can fail.
NextFaulty ==
  \/ Next
  \/ \E l \in BagToSet(inflight) : FailThrows(l)
  \/ \E l \in BagToSet(inflight) : FailErrorBody(l)

SpecFaulty == Init /\ [][NextFaulty]_vars

\* ======================= the claims =======================

\* The posts on screen: allPosts.slice(0, displayedCount).
Displayed(posts, count) == {posts[i] : i \in 1..Min(count, Len(posts))}

\* x comes before y in the list s.
Before(s, x, y) ==
  \E i \in 1..Len(s), j \in 1..Len(s) : i < j /\ s[i] = x /\ s[j] = y

\* The ids of a fetched list that allPosts does not hold.
FreshIds(l) == Range(l.data) \ Range(allPosts)

\* This step is the completion of load l on the page that is open.
Applied(l) ==
  \/ \E eager \in BOOLEAN : ApplyLoadRandom(l, eager)
  \/ ApplyLoadFeed(l)
  \/ ApplyLoadHome(l)

\* C1: in the random page 0 <= displayedCount <= len(allPosts) in every
\* reachable state, the initial one included, whatever the store holds.
C1_CountWithinPosts ==
  view = "random" => 0 <= displayedCount /\ displayedCount <= Len(allPosts)

\* C2: in the random page a periodic refresh that fetches k >= 1 ids not in
\* allPosts makes allPosts k longer and sets displayedCount to
\* min(displayedCount + k, new length).
C2_RefreshGrowth ==
  [][\A l \in BagToSet(inflight), eager \in BOOLEAN :
       (ApplyLoadRandom(l, eager) /\ ~l.initial /\ FreshIds(l) # {}) =>
         /\ Len(allPosts') = Len(allPosts) + Cardinality(FreshIds(l))
         /\ displayedCount' =
              Min(displayedCount + Cardinality(FreshIds(l)), Len(allPosts'))]_vars

\* C3 as stated: in every page that polls, a periodic refresh that discovers
\* new posts leaves every new post before every post known before, and the
\* known posts in the relative order they had.
NewPostsFirst(l) ==
  /\ \A n \in FreshIds(l), o \in Range(allPosts) : Before(allPosts', n, o)
  /\ \A x \in Range(allPosts), y \in Range(allPosts) :
       Before(allPosts, x, y) => Before(allPosts', x, y)

C4_DisplayedStaysDisplayed ==
  [][view = "random" =>
       /\ (~(\E l \in BagToSet(inflight) : l.initial /\ Applied(l))
             => Displayed(allPosts, displayedCount)
                  \subseteq Displayed(allPosts', displayedCount'))
       /\ \A cap \in 0..NumIds :
            TimerFires(cap) => displayedCount' >= displayedCount]_vars

\* C5: in every page with pagination and polling, a periodic refresh that
\* fetches no new id leaves allPosts and displayedCount as they were.
C5_RefreshIdempotent ==
  [][\A l \in BagToSet(inflight) :
       (Applied(l) /\ ~l.initial /\ FreshIds(l) = {}) =>
         allPosts' = allPosts /\ displayedCount' = displayedCount]_vars

\* C6: in the random page no id ever leaves allPosts and its length never
\* decreases, whatever the fetches return.
C6_NeverShrinks ==
  [][view = "random" =>
       /\ Range(allPosts) \subseteq Range(allPosts')
       /\ Len(allPosts) <= Len(allPosts')]_vars

C6_Witness ==
  /\ view = "random"
  /\ last.op = "load" /\ last.missing
  /\ Len(allPosts) >= 2

\* C7: when an initial load completes, displayedCount is
\* min(POSTS_PER_LOAD, len(allPosts)).
C7_InitialCount ==
  [][\A l \in BagToSet(inflight) :
       (Applied(l) /\ l.initial) =>
         displayedCount' = Min(POSTS_PER_LOAD, Len(allPosts'))]_vars

\* C8: however many scroll events arrive while a load-more is pending, one
\* timer at most is pending.
C8_OneTimerPending == BagCardinality(timers) <= 1

\* C9: in the pages that replace allPosts, once no loadPosts is pending,
\* allPosts (and the recorded ids) is the list fetched by the call that
\* started last.
C9_LatestPollWins ==
  (view \in {"feed", "home"} /\ mounted /\ inflight = EmptyBag) =>
    /\ allPosts = latest
    /\ (view = "feed" => previousPostIds = Range(latest))

\* C10: when a manual refresh completes with no periodic refresh having
\* completed since it started, displayedCount is POSTS_PER_LOAD, the bubble is
\* hidden and newPostsCount is 0, also when the refetch found new posts.
C10_ManualRefreshResets ==
  [][\A l \in BagToSet(inflight) :
       (Applied(l) /\ l.manual /\ l.quiet) =>
         /\ displayedCount' = POSTS_PER_LOAD
         /\ ~showNewPostsBubble'
         /\ newPostsCount' = 0]_vars

C10_Witness ==
  /\ last.op = "load" /\ last.manual /\ last.quiet
  /\ last.known /\ last.fresh # "none"
  /\ displayedCount = POSTS_PER_LOAD
  /\ ~showNewPostsBubble

\* C11: when a load fails (the API request throws, or answers with an error
\* status and an error body) allPosts and displayedCount keep their values,
\* allPosts is still a list of posts, and isLoading ends false.
C11_FailedLoadKeepsState ==
  [][\A l \in BagToSet(inflight) :
       FailLoad(l) =>
         /\ allPosts' = allPosts
         /\ displayedCount' = displayedCount
         /\ Range(allPosts') \subseteq Ids
         /\ (l.loading => ~isLoading')]_vars

\* ---- the upload route and the listing
\* The file name without its extension.
Stem(filename) ==
  IF Occurrences(filename, <<".">>) = {} THEN filename
  ELSE SubSeq(filename, 1,
              (CHOOSE i \in Occurrences(filename, <<".">>) :
                 \A j \in Occurrences(filename, <<".">>) : j <= i) - 1)

\* Upload u is answered by this step with the given status.
Answered(u, status) ==
  /\ u \in DOMAIN uploads
  /\ uploads[u].status # status
  /\ uploads'[u].status = status

\* C12: when an upload succeeds the store holds its image at <filename>, its
\* prompt and type at <stem>.txt, and its story at <stem>_story.txt exactly
\* when a story was supplied, whatever the name and extension of the file.
C12_UploadStoresFiles ==
  [][\A u \in DOMAIN uploads :
       Answered(u, 200) =>
         /\ ReadFile(files', uploads[u].filename) = {[by |-> u, part |-> "image"]}
         /\ ReadFile(files', Stem(uploads[u].filename) \o TXT)
              = {[by |-> u, part |-> "prompt"]}
         /\ ReadFile(files', Stem(uploads[u].filename) \o STORY_TXT)
              = (IF uploads[u].story THEN {[by |-> u, part |-> "story"]} ELSE {})]_vars

\* C13: the file name is the timestamp with every ':' and '.' replaced by
\* '-', then '-' and the original name, or the original name at once when it
\* starts with '.'; 2025-01-02T03:04:05.678Z and art.png give
\* 2025-01-02T03-04-05-678Z-art.png.
ExampleStamp ==
  <<"2", "0", "2", "5", "-", "0", "1", "-", "0", "2", "T", "0",
  "3", ":", "0", "4", ":", "0", "5", ".", "6", "7", "8", "Z">>

ExampleFilename ==
  <<"2", "0", "2", "5", "-", "0", "1", "-", "0", "2", "T", "0",
  "3", "-", "0", "4", "-", "0", "5", "-", "6", "7", "8", "Z", "-",
  "a", "r", "t", ".", "p", "n", "g">>

NamedAsSpecified(timestamp, name, filename) ==
  LET n == Len(timestamp)
      sep == IF name # <<>> /\ name[1] = "." THEN 0 ELSE 1
  IN /\ Len(filename) = n + sep + Len(name)
     /\ \A i \in 1..n :
          filename[i] = (IF timestamp[i] = ":" \/ timestamp[i] = "." THEN "-"
                         ELSE timestamp[i])
     /\ sep = 1 => filename[n + 1] = "-"
     /\ \A i \in 1..Len(name) : filename[n + sep + i] = name[i]

C13_FilenameDerivation ==
  /\ DeriveFilename(ExampleStamp, <<"a", "r", "t">> \o PNG) = ExampleFilename
  /\ \A u \in DOMAIN uploads :
       (uploads[u].image /\ uploads[u].name # <<>>) =>
         NamedAsSpecified(uploads[u].timestamp, uploads[u].name, uploads[u].filename)

C13_Witness ==
  \E u \in DOMAIN uploads, v \in DOMAIN uploads :
    /\ uploads[u].image /\ uploads[v].image
    /\ uploads[u].timestamp = <<"t", ":", "t", ".", "t">>
    /\ uploads[u].name = <<"a">> \o PNG
    /\ uploads[u].filename = <<"t", "-", "t", "-", "t", "-", "a">> \o PNG
    /\ uploads[v].name = PNG
    /\ uploads[v].filename = Sanitize(uploads[v].timestamp) \o PNG

\* C14: every image a successful upload wrote, whatever its extension, is one
\* post of every later listing, under the id the upload returned.
C14_ListingHasEveryUpload ==
  [][ListPosts =>
       \A u \in DOMAIN uploads :
         uploads[u].status = 200 =>
           Cardinality({p \in listing'.posts : p.id = uploads[u].filename}) = 1]_vars

\* The one post a listing holds for a file name, if it holds one.
PostsFor(posts, filename) == {p \in posts : p.id = filename}

\* C15: after two successful uploads, one after the other, that derive the
\* same file name, a listing returns one post for it whose prompt, type and
\* story are those of the second upload (no story when the second had none).
C15_ReuploadOverwrites ==
  [][ListPosts =>
       \A u \in DOMAIN uploads, v \in DOMAIN uploads :
         (/\ uploads[u].status = 200 /\ uploads[v].status = 200
          /\ u \in uploads[v].prior
          /\ uploads[u].filename = uploads[v].filename
          /\ IsImage(uploads[v].filename))
         => PostsFor(listing'.posts, uploads[v].filename) =
              {[id |-> uploads[v].filename,
                timestamp |-> ParseTimestamp(uploads[v].filename),
                prompt |-> {[by |-> v, part |-> "prompt"]},
                story |-> IF uploads[v].story
                          THEN {[by |-> v, part |-> "story"]} ELSE {}]}]_vars

\* C16: when two uploads that derive the same file name run concurrently,
\* then after both completed the image, the prompt sidecar and the story
\* sidecar under that name come from the same one of the two.
C16_LastWriterWins ==
  \A u \in DOMAIN uploads, v \in DOMAIN uploads :
    (/\ u # v
     /\ uploads[u].status = 200 /\ uploads[v].status = 200
     /\ u \notin uploads[v].prior /\ v \notin uploads[u].prior
     /\ uploads[u].filename = uploads[v].filename
     /\ uploads[u].story /\ uploads[v].story
     /\ IsImage(uploads[u].filename))
    => \E w \in {u, v} :
         /\ ReadFile(files, uploads[u].filename) = {[by |-> w, part |-> "image"]}
         /\ ReadFile(files, Stem(uploads[u].filename) \o TXT)
              = {[by |-> w, part |-> "prompt"]}
         /\ ReadFile(files, Stem(uploads[u].filename) \o STORY_TXT)
              = {[by |-> w, part |-> "story"]}

\* C17: an upload in which a write fails is answered 500 and leaves none of
\* its files in the store.
C17_FailedUploadLeavesNothing ==
  [][\A u \in DOMAIN uploads :
       Answered(u, 500) => \A f \in files' : f.by # u]_vars

\* C18: an upload request without an image is answered 400 and creates or
\* changes no file of the store.
C18_NoImageNoChange ==
  [][\A u \in DOMAIN uploads' :
       ~uploads'[u].image =>
         /\ uploads'[u].status = 400
         /\ \A f \in files' : f.by # u
         /\ (u \notin DOMAIN uploads => files' = files)]_vars

C18_Witness ==
  \E u \in DOMAIN uploads :
    /\ ~uploads[u].image
    /\ uploads[u].status = 400
    /\ uploads[u].prior # {}
    /\ files # {}

\* C19: for any two different image file names of the store, the prompt and
\* story sidecar paths of the one differ from those of the other.
SidecarPaths(filename) == {PromptPath(filename), StoryPath(filename)}

C19_SidecarsDisjoint ==
  \A f \in files, g \in files :
    (f.part = "image" /\ g.part = "image" /\ f.path # g.path)
    => SidecarPaths(f.path) \cap SidecarPaths(g.path) = {}

\* C20: the listing splits the file stem on '-'; with at least 4 parts and a
\* 4th part of 6 characters the timestamp is the first three parts joined by
\* '-', a space and the 4th part as HH:MM:SS, else it is the stem unchanged;
\* 2025-10-26-215555 gives 2025-10-26 21:55:55 and abc123 stays abc123.
\* The place of the n-th dash of s, or Len(s) + 1 when s has fewer.
NthDash(s, n) ==
  LET D == Occurrences(s, <<"-">>) IN
  IF Cardinality(D) < n THEN Len(s) + 1
  ELSE CHOOSE i \in D : Cardinality({j \in D : j < i}) = n - 1

TimestampOfStem(stem) ==
  LET fourth == SubSeq(stem, NthDash(stem, 3) + 1, NthDash(stem, 4) - 1) IN
  IF Cardinality(Occurrences(stem, <<"-">>)) >= 3 /\ Len(fourth) = 6
  THEN SubSeq(stem, 1, NthDash(stem, 3) - 1) \o <<" ">>
         \o <<fourth[1], fourth[2], ":", fourth[3], fourth[4], ":",
              fourth[5], fourth[6]>>
  ELSE stem

C20_TimestampFromStem ==
  /\ ParseTimestamp(<<"2", "0", "2", "5", "-", "1", "0", "-", "2", "6", "-", "2", "1", "5", "5", "5", "5">> \o PNG)
       = <<"2", "0", "2", "5", "-", "1", "0", "-", "2", "6", " ", "2", "1", ":", "5", "5", ":", "5", "5">>
  /\ ParseTimestamp(<<"a", "b", "c", "1", "2", "3">> \o PNG) = <<"a", "b", "c", "1", "2", "3">>
  /\ \A p \in listing.posts : p.timestamp = TimestampOfStem(Stem(p.id))

\* C29: in the random page allPosts never holds an id twice, whatever loads
\* overlap and in whatever order their responses are applied (a fetched list
\* holds no id twice).
C29_NoDuplicateIds ==
  view = "random" =>
    \A i, j \in DOMAIN allPosts : allPosts[i] = allPosts[j] => i = j

\* A response with new posts was merged into a list that held posts, while
\* another load was still in flight.
C29_Witness ==
  /\ view = "random"
  /\ last.op = "load" /\ last.known /\ last.fresh # "none"
  /\ inflight # EmptyBag
  /\ Len(allPosts) >= 2

\* C28: in the demo page with 2 posts or more, a tick either reveals the post
\* of the reversed list that follows the ones revealed so far, index 1 first
\* after a reset, or, when every post is revealed, resets the list to the
\* first post alone: no post is skipped in any cycle.
C28_EveryPostEveryCycle ==
  [][(addNextPost /\ Len(allPosts) >= 2) =>
       IF Range(displayedPosts) = Range(allPosts)
       THEN displayedPosts' = <<Reverse(allPosts)[1]>>
       ELSE displayedPosts' =
              <<Reverse(allPosts)[Len(displayedPosts) + 1]>> \o displayedPosts]_vars

\* The index the strip rule gives: floor(y / (h / len)) clamped to [0, len-1].
ClampedBand(y, h, len) ==
  LET i == (y * len) \div h IN
  IF i < 0 THEN 0 ELSE IF i > len - 1 THEN len - 1 ELSE i

MouseAt(y, h) ==
  handleMouseDown(y, h) \/ handleMouseMove(y, h) \/ handleGlobalMouseMove(y, h)

TouchAt(y, h) == handleTouchStart(y, h) \/ handleTouchMove(y, h)

\* C25: in the strip page with at least one post, every pointer or touch
\* position handled at offset y of a container of height h selects the post
\* at index floor(y / (h / len)) clamped to [0, len-1], also with y outside
\* the container (4 posts, h = 400: y = 150 gives 1, y = 399 gives 3).
C25_ClampedSelection ==
  /\ ClampedBand(150, 400, 4) = 1
  /\ ClampedBand(399, 400, 4) = 3
  /\ [][\A y \in Offsets, h \in Heights :
          ((MouseAt(y, h) \/ TouchAt(y, h)) /\ Len(allPosts) >= 1) =>
            displayedPost' = allPosts[ClampedBand(y, h, Len(allPosts)) + 1]]_vars

\* C25, amended: a touch position selects the post at the clamped index; a
\* mouse position selects the post at index floor(y / (h / len)) when that
\* index is in [0, len-1] and selects nothing when it is not.
C25_TouchClampedMouseInside ==
  /\ ClampedBand(150, 400, 4) = 1
  /\ ClampedBand(399, 400, 4) = 3
  /\ bandIndex(150, 400, 4) = 1
  /\ bandIndex(399, 400, 4) = 3
  /\ [][\A y \in Offsets, h \in Heights :
          /\ (TouchAt(y, h) /\ Len(allPosts) >= 1) =>
               displayedPost' = allPosts[ClampedBand(y, h, Len(allPosts)) + 1]
          /\ (MouseAt(y, h) /\ Len(allPosts) >= 1) =>
               IF (y * Len(allPosts)) \div h \in 0..(Len(allPosts) - 1)
               THEN displayedPost' = allPosts[((y * Len(allPosts)) \div h) + 1]
               ELSE displayedPost' = displayedPost]_vars

\* A finger dragged below the container selected the last post.
C25_Witness ==
  /\ view = "hover" /\ Len(allPosts) >= 2
  /\ event.kind = "touchmove" /\ event.y > event.h
  /\ displayedPost = allPosts[Len(allPosts)]

\* C26: in the strip page the selection changes only while the pointer is
\* down or touching; on release the displayed post stays the last one
\* selected and no pointer movement changes it until the next press.
C26_FrozenOnRelease ==
  [][(view = "hover" /\ mounted) =>
       /\ (~isDragging /\ ~isTouching /\ ~isDragging' /\ ~isTouching') =>
            displayedPost' = displayedPost
       /\ ((\E kind \in {"mouseup", "mouseleave"} : handleMouseUp(kind))
             \/ handleTouchEnd) =>
            displayedPost' = displayedPost]_vars

\* C26, amended: the selection changes only by a press, a touch, a movement
\* of the finger that is down, a mouse movement during a drag, or a mouse
\* movement over the strip, with or without a button down; a release (mouse
\* up, mouse leave, touch end) leaves the last selected post displayed.
C26_ReleaseKeepsSelection ==
  [][(view = "hover" /\ mounted) =>
       /\ displayedPost' # displayedPost =>
            \/ event'.kind \in {"mousedown", "touchstart"}
            \/ event'.kind = "mousedrag" /\ isDragging
            \/ event'.kind = "touchmove" /\ isTouching
            \/ event'.kind = "mousemove" /\ event'.y >= 0 /\ event'.y < event'.h
       /\ ((\E kind \in {"mouseup", "mouseleave"} : handleMouseUp(kind))
             \/ handleTouchEnd) =>
            /\ displayedPost' = displayedPost
            /\ displayedPost' = lastHoveredPost]_vars

C26_Witness ==
  /\ view = "hover" /\ Len(allPosts) >= 2
  /\ event.kind \in {"mouseup", "touchend"}
  /\ ~isDragging /\ ~isTouching
  /\ displayedPost # 0 /\ displayedPost = lastHoveredPost

\* C27: in the drawer page with at least one post, a scroll event at the
\* absolute top (scrollTop <= 5) makes the first post active and a scroll
\* event at the absolute bottom (scrollTop + viewport height >= scroll
\* height - 5) makes the last post active, whatever the weighted score says.
C27_EdgesForceEnds ==
  (view = "drawer" /\ event.kind = "scroll" /\ Len(allPosts) >= 1) =>
    /\ event.scrollTop <= 5 => activePost = allPosts[1]
    /\ event.scrollTop + event.viewportHeight >= event.scrollHeight - 5 =>
         activePost = allPosts[Len(allPosts)]

\* The file a request names in a directory: the image of that name right
\* in it.
InDirectory(dir, filename) ==
  /\ join(dir, filename) \in disk
  /\ IsPrefix(dir, join(dir, filename))
  /\ Len(join(dir, filename)) = Len(dir) + 1

\* C24: the image endpoint answers 404 exactly when the requested file is in
\* neither public/db nor db; when it is in one of them it answers with the
\* bytes of the file, from public/db when it is there and else from db.
C24_ImageFromEitherDirectory ==
  served # NoAnswer =>
    LET inPublic == InDirectory(PUBLIC_DB, served.filename)
        inDb == InDirectory(DB, served.filename)
    IN /\ served.status = 404 <=> (~inPublic /\ ~inDb)
       /\ inPublic =>
            served.status = 200 /\ served.body = join(PUBLIC_DB, served.filename)
       /\ (~inPublic /\ inDb) =>
            served.status = 200 /\ served.body = join(DB, served.filename)

\* a before b when strings are compared by their code units (a < b)
codeUnitLess(a, b) == LexLess(CodeUnits(a), CodeUnits(b))

\* The lists the two programs have produced so far.
Produced ==
  {r.json : r \in {x \in {listing, snapshot} : x.done}}

\* C21: every listing is sorted by timestamp descending under plain string
\* comparison: of two consecutive posts the first's timestamp is greater than
\* or equal to the second's, for parsed dates and for raw stems alike.
C21_SortedPlain ==
  \A json \in Produced :
    \A i \in 1..(Len(json) - 1) :
      ~codeUnitLess(json[i].timestamp, json[i + 1].timestamp)

\* C21, amended: every listing is sorted by timestamp descending in the order
\* of localeCompare, the collation of the runtime: of two consecutive posts the
\* second's timestamp never comes after the first's in that order. Letters of
\* both cases and punctuation are where it departs from the code units.
C21_SortedByLocale ==
  \A json \in Produced :
    \A i \in 1..(Len(json) - 1) :
      ~localeLess(json[i].timestamp, json[i + 1].timestamp)

\* A listing of a parsed date and of raw stems, 'A' right before 'a'.
C21_Witness ==
  /\ listing.done
  /\ \E i \in 1..(Len(listing.json) - 1) :
       /\ listing.json[i].timestamp = <<"A">>
       /\ listing.json[i + 1].timestamp = <<"a">>
  /\ \E i \in DOMAIN listing.json : Len(listing.json[i].timestamp) > 1

\* A post without its engagement counters.
Meta(post) ==
  [id |-> post.id, filename |-> post.filename, timestamp |-> post.timestamp,
   prompt |-> post.prompt, type |-> post.type, story |-> post.story]

MetaList(json) == [i \in DOMAIN json |-> Meta(json[i])]

\* C22: for every content of the store directory the snapshot generator
\* produces the same list of posts in the same order as the listing service,
\* equal in id, filename, timestamp, prompt, type and story (the random
\* counters aside).
C22_SameListSameOrder ==
  (listing.done /\ snapshot.done) =>
    MetaList(snapshot.json) = MetaList(listing.json)

\* C22, amended: the generator and the listing service produce the same
\* posts (id, filename, timestamp, prompt, type, story) and the same sequence
\* of timestamps; posts of one timestamp stand in the order in which each
\* program was given the directory, which need not be the same.
C22_SamePostsSameTimestamps ==
  (listing.done /\ snapshot.done) =>
    /\ Range(MetaList(snapshot.json)) = Range(MetaList(listing.json))
    /\ Len(snapshot.json) = Len(listing.json)
    /\ \A i \in DOMAIN listing.json :
         snapshot.json[i].timestamp = listing.json[i].timestamp

\* Both programs have run over a store with a prompt file and two images of
\* one timestamp, which they give in opposite orders.
C22_Witness ==
  /\ listing.done /\ snapshot.done
  /\ Len(listing.json) >= 3
  /\ \E i \in DOMAIN listing.json : listing.json[i].prompt = <<"p">>
  /\ MetaList(snapshot.json) # MetaList(listing.json)

\* C23: in every listing response every post has likes in 5..54, comments in
\* 0..9 and shares in 0..4, whatever the random draws.
C23_CountersInRange ==
  \A json \in Produced :
    \A i \in DOMAIN json :
      /\ json[i].likes \in 5..54
      /\ json[i].comments \in 0..9
      /\ json[i].shares \in 0..4

\* A response whose draws were the largest for likes and shares and the
\* smallest for comments.
C23_Witness ==
  /\ listing.done
  /\ \E i \in DOMAIN listing.json :
       /\ listing.json[i].likes = 54
       /\ listing.json[i].comments = 0
       /\ listing.json[i].shares = 4

\* The files of upload u are all in the store as that upload wrote them.
Stored(u) ==
  /\ uploads[u].pc = "done" /\ uploads[u].status = 200
  /\ \A path \in {uploads[u].filename, PromptPath(uploads[u].filename)}
                 \cup (IF uploads[u].story
                       THEN {StoryPath(uploads[u].filename)} ELSE {}) :
       \E f \in files : f.path = path /\ f.by = u

\* C30: upload and listing round-trip the metadata: after an upload of a .png
\* image with prompt p, type t and story s, whatever the text, a later listing
\* holds the post of that id with prompt p, type t and story s, and with
\* 'No prompt available', 'generated' and '' for a field that was left out.
C30_MetadataRoundTrip ==
  [][ListPosts =>
       \A u \in DOMAIN uploads :
         (Stored(u) /\ EndsWith(uploads[u].filename, PNG)) =>
           \E i \in DOMAIN listing'.json :
             /\ listing'.json[i].id = uploads[u].filename
             /\ listing'.json[i].prompt = orElse(uploads[u].fields.prompt, NO_PROMPT)
             /\ listing'.json[i].type = orElse(uploads[u].fields.type, GENERATED)
             /\ listing'.json[i].story = uploads[u].fields.story]_vars

====
